---- MODULE Spec2Model ----
(***************************************************************************)
(* Model of life.py: an interactive navigator over a taxonomy stored as a  *)
(* directory tree.  The state is the Entry held by the main loop (the      *)
(* lazily filled search index of the current node), the filesystem it      *)
(* scans, and the record of the last command line and of what it printed.  *)
(*                                                                         *)
(* Strings are sequences of one-character strings, so that lower(),        *)
(* upper(), int(), startswith, split and the substring search of the code  *)
(* are computed and not assumed.  A filesystem path is the sequence of     *)
(* directory names below the directory that holds the program; the empty   *)
(* path is that directory itself, which has no descriptor.                 *)
(***************************************************************************)
EXTENDS Integers, Sequences, FiniteSets, TLC

VARIABLES fs,            \* the directory tree: path -> descriptor (.info.yml)
          level,         \* main's variable `level`: the current Entry
          pc,            \* where the main loop is: "start", "input", "command",
                         \* "done", "continue" (the loop's continue: empty line,
                         \* Ctrl-C), "exited" (exit, end of input) or "crashed"
                         \* (uncaught exception)
          command_line,  \* main's variable `command`: the tokens of the line read
          out            \* what this turn's command printed and which I/O it did

vars == <<fs, level, pc, command_line, out>>

(***************************************************************************)
(* Bounds of the model.                                                    *)
(***************************************************************************)
\* largest distance N used in the -d<N> tokens the model types in
MaxDist == 2
\* largest argument n used in the `p n` commands the model types in
MaxUp == 3

(***************************************************************************)
(* Strings.                                                                *)
(***************************************************************************)
UpperCase == << "A", "B", "C", "D", "E", "F", "G", "H", "I", "J", "K", "L", "M",
                "N", "O", "P", "Q", "R", "S", "T", "U", "V", "W", "X", "Y", "Z" >>

LowerCase == << "a", "b", "c", "d", "e", "f", "g", "h", "i", "j", "k", "l", "m",
                "n", "o", "p", "q", "r", "s", "t", "u", "v", "w", "x", "y", "z" >>

DigitChars == << "0", "1", "2", "3", "4", "5", "6", "7", "8", "9" >>

\* the characters the model uses, in code point order (for sorting by name)
CodePoints == << "+", "-", "." >> \o DigitChars \o << "?" >> \o UpperCase \o LowerCase

Range(f) == { f[i] : i \in DOMAIN f }

IndexIn(seq, c) == CHOOSE i \in DOMAIN seq : seq[i] = c

\* str.lower() and str.upper(), character by character
lower_char(c) == IF c \in Range(UpperCase) THEN LowerCase[IndexIn(UpperCase, c)] ELSE c

upper_char(c) == IF c \in Range(LowerCase) THEN UpperCase[IndexIn(LowerCase, c)] ELSE c

lower(s) == [i \in 1..Len(s) |-> lower_char(s[i])]

upper(s) == [i \in 1..Len(s) |-> upper_char(s[i])]

\* s.startswith(prefix)
startswith(s, prefix) == /\ Len(s) >= Len(prefix)
                         /\ SubSeq(s, 1, Len(prefix)) = prefix

\* s[n:]
drop(s, n) == SubSeq(s, n + 1, Len(s))

\* int(s) succeeds (no ValueError): an optional sign followed by one or more digits
int_ok(s) == LET body == IF Len(s) > 0 /\ s[1] \in {"+", "-"} THEN Tail(s) ELSE s
             IN  /\ Len(body) > 0
                 /\ \A i \in 1..Len(body) : body[i] \in Range(DigitChars)

RECURSIVE digits_val(_)
digits_val(s) == IF Len(s) = 0 THEN 0
                 ELSE 10 * digits_val(SubSeq(s, 1, Len(s) - 1))
                      + (IndexIn(DigitChars, s[Len(s)]) - 1)

\* the value of int(s) when int_ok(s)
int(s) == IF s[1] = "-" THEN 0 - digits_val(Tail(s))
          ELSE IF s[1] = "+" THEN digits_val(Tail(s))
          ELSE digits_val(s)

\* s.split('..'): cut at each occurrence of the separator, scanning from the left
RECURSIVE split_dots(_)
split_dots(s) ==
    LET hits == { i \in 1..(Len(s) - 1) : s[i] = "." /\ s[i + 1] = "." }
    IN  IF hits = {} THEN << s >>
        ELSE LET i == CHOOSE h \in hits : \A g \in hits : h <= g
             IN  << SubSeq(s, 1, i - 1) >> \o split_dots(drop(s, i + 1))

\* re.search(arg, name, re.I) for a pattern of plain letters and digits:
\* the pattern occurs in the name, ignoring case
re_search(arg, name) ==
    \E i \in 0..(Len(name) - Len(arg)) :
        lower(SubSeq(name, i + 1, i + Len(arg))) = lower(arg)

\* s < t in the order of Python strings (by code point, shorter prefix first)
str_less(s, t) ==
    \/ /\ Len(s) < Len(t)
       /\ SubSeq(t, 1, Len(s)) = s
    \/ \E i \in 1..Len(s) :
          /\ i <= Len(t)
          /\ SubSeq(s, 1, i - 1) = SubSeq(t, 1, i - 1)
          /\ IndexIn(CodePoints, s[i]) < IndexIn(CodePoints, t[i])

(***************************************************************************)
(* The rank vocabulary.                                                    *)
(***************************************************************************)
\* LEVELS in the order of the dict: name, numeric order, short code
LEVELS ==
  << [name |-> <<"l", "i", "f", "e">>, order |-> 0, short |-> <<"L">>],
     [name |-> <<"d", "o", "m", "a", "i", "n">>, order |-> 1, short |-> <<"D">>],
     [name |-> <<"k", "i", "n", "g", "d", "o", "m">>, order |-> 2, short |-> <<"K">>],
     [name |-> <<"s", "u", "b", "k", "i", "n", "g", "d", "o", "m">>, order |-> 3, short |-> <<"K", "-">>],
     [name |-> <<"s", "u", "p", "e", "r", "p", "h", "y", "l", "u", "m">>, order |-> 4, short |-> <<"P", "+">>],
     [name |-> <<"p", "h", "y", "l", "u", "m">>, order |-> 5, short |-> <<"P">>],
     [name |-> <<"s", "u", "b", "p", "h", "y", "l", "u", "m">>, order |-> 6, short |-> <<"P", "-">>],
     [name |-> <<"s", "u", "p", "e", "r", "c", "l", "a", "s", "s">>, order |-> 7, short |-> <<"C", "+">>],
     [name |-> <<"c", "l", "a", "s", "s">>, order |-> 8, short |-> <<"C">>],
     [name |-> <<"s", "u", "b", "c", "l", "a", "s", "s">>, order |-> 9, short |-> <<"C", "-">>],
     [name |-> <<"s", "u", "p", "e", "r", "o", "r", "d", "e", "r">>, order |-> 10, short |-> <<"O", "+">>],
     [name |-> <<"o", "r", "d", "e", "r">>, order |-> 11, short |-> <<"O">>],
     [name |-> <<"s", "u", "b", "o", "r", "d", "e", "r">>, order |-> 13, short |-> <<"O", "-">>],
     [name |-> <<"s", "u", "p", "e", "r", "f", "a", "m", "i", "l", "y">>, order |-> 14, short |-> <<"F", "+">>],
     [name |-> <<"f", "a", "m", "i", "l", "y">>, order |-> 15, short |-> <<"F">>],
     [name |-> <<"s", "u", "b", "f", "a", "m", "i", "l", "y">>, order |-> 16, short |-> <<"F", "-">>],
     [name |-> <<"g", "e", "n", "u", "s">>, order |-> 17, short |-> <<"G">>],
     [name |-> <<"s", "u", "b", "g", "e", "n", "u", "s">>, order |-> 18, short |-> <<"G", "-">>],
     [name |-> <<"s", "u", "p", "e", "r", "s", "p", "e", "c", "i", "e", "s">>, order |-> 19, short |-> <<"S", "+">>],
     [name |-> <<"s", "p", "e", "c", "i", "e", "s">>, order |-> 20, short |-> <<"S">>],
     [name |-> <<"s", "u", "b", "s", "p", "e", "c", "i", "e", "s">>, order |-> 21, short |-> <<"S", "-">>] >>

LevelNames == { LEVELS[i].name : i \in DOMAIN LEVELS }

\* LEVELS[l][0]
level_order(l) == LEVELS[CHOOSE i \in DOMAIN LEVELS : LEVELS[i].name = l].order

\* LEVELS[l][1]
level_short(l) == LEVELS[CHOOSE i \in DOMAIN LEVELS : LEVELS[i].name = l].short

level_dict == [l \in LevelNames |-> {}]

distance_dict == [d \in 0..(Len(LEVELS) - 1) |-> {}]

\* parse_level(s): the first rank of the dict that s names, or <<>> for None
parse_level(s) ==
    LET hits == { i \in DOMAIN LEVELS :
                     LEVELS[i].name = lower(s) \/ LEVELS[i].short = upper(s) }
    IN  IF hits = {} THEN << >>
        ELSE LEVELS[CHOOSE h \in hits : \A g \in hits : h <= g].name

(***************************************************************************)
(* The filesystem.  fs maps each directory (a path) to its descriptor:     *)
(* exists = the directory holds a .info.yml, level = its `level` field,    *)
(* info = it has an `info` field.                                          *)
(***************************************************************************)
descriptor(lvl, hasinfo) == [exists |-> TRUE, level |-> lvl, info |-> hasinfo]

life == <<"l", "i", "f", "e">>

domain == <<"d", "o", "m", "a", "i", "n">>

kingdom == <<"k", "i", "n", "g", "d", "o", "m">>

phylum == <<"p", "h", "y", "l", "u", "m">>

class == <<"c", "l", "a", "s", "s">>

Life == <<"L", "i", "f", "e">>

Eukarya == <<"E", "u", "k", "a", "r", "y", "a">>

Animalia == <<"A", "n", "i", "m", "a", "l", "i", "a">>

Chordata == <<"C", "h", "o", "r", "d", "a", "t", "a">>

Mammalia == <<"M", "a", "m", "m", "a", "l", "i", "a">>

\* the start directory of the main program: <program directory>/Life
RootPath == << Life >>

\* Life > Eukarya > Animalia > Chordata > Mammalia, one rank per directory
TreeChain ==
    ( << Life >>                                         :> descriptor(life, TRUE) ) @@
    ( << Life, Eukarya >>                                :> descriptor(domain, FALSE) ) @@
    ( << Life, Eukarya, Animalia >>                      :> descriptor(kingdom, TRUE) ) @@
    ( << Life, Eukarya, Animalia, Chordata >>            :> descriptor(phylum, FALSE) ) @@
    ( << Life, Eukarya, Animalia, Chordata, Mammalia >>  :> descriptor(class, FALSE) )

\* a tree that skips and repeats ranks, with names that differ only in case
\* and a child named like an ancestor
TreeMixed ==
    ( << Life >>                                  :> descriptor(life, FALSE) ) @@
    ( << Life, <<"A", "b">> >>                    :> descriptor(domain, TRUE) ) @@
    ( << Life, <<"A", "b">>, <<"B", "a">> >>      :> descriptor(kingdom, FALSE) ) @@
    ( << Life, <<"A", "b">>, <<"B", "a">>, <<"C", "a">> >> :> descriptor(kingdom, FALSE) ) @@
    ( << Life, <<"A", "b">>, <<"l", "i", "f", "e">> >>     :> descriptor(phylum, FALSE) ) @@
    ( << Life, <<"a", "b">> >>                    :> descriptor(kingdom, FALSE) )

Trees == { TreeChain, TreeMixed }

\* a directory that holds no .info.yml
missing == [exists |-> FALSE, level |-> << >>, info |-> FALSE]

\* a tree in which one directory two levels below the root has no descriptor
TreeBroken ==
    ( << Life >>                                  :> descriptor(life, TRUE) ) @@
    ( << Life, <<"A", "b">> >>                    :> descriptor(domain, FALSE) ) @@
    ( << Life, <<"A", "b">>, <<"B", "a">> >>      :> missing ) @@
    ( << Life, <<"A", "b">>, <<"B", "c">> >>      :> descriptor(kingdom, FALSE) ) @@
    ( << Life, <<"A", "c">> >>                    :> descriptor(domain, TRUE) ) @@
    ( << Life, <<"A", "c">>, <<"B", "d">> >>      :> descriptor(kingdom, FALSE) )

BrokenTrees == { TreeBroken }

\* path.dirname and path.basename
dirname(p) == SubSeq(p, 1, Len(p) - 1)

basename(p) == p[Len(p)]

\* open(path.join(basepath, '.info.yml')) succeeds
has_info(p) == p \in DOMAIN fs /\ fs[p].exists

\* iglob(base + '/*' * distance) filtered by isdir: '/*' * distance is the
\* empty string when distance <= 0, and then the pattern is base itself
glob(base, distance) ==
    IF distance <= 0 THEN { base }
    ELSE { p \in DOMAIN fs : /\ Len(p) = Len(base) + distance
                             /\ SubSeq(p, 1, Len(base)) = base }

(***************************************************************************)
(* LightEntry.  Sets of entries compare by object identity, so an entry    *)
(* carries obj, which tells apart the objects built for one path.          *)
(***************************************************************************)
LightEntry(basepath, obj) ==
    [path |-> basepath, level |-> fs[basepath].level, obj |-> obj]

name(entry) == basename(entry.path)

has_parent(entry) == has_info(dirname(entry.path))

parent(entry) == LightEntry(dirname(entry.path), 0)

(***************************************************************************)
(* Entry: the index of one position.  A run of a method is a record        *)
(*   e     the Entry (as far as it got),                                   *)
(*   exc   the exception that ended the run, or "none",                    *)
(*   globs the distances whose directories were enumerated,                *)
(*   loads the paths whose descriptor was opened.                          *)
(* Iteration over a Python set of strings (paths, ranks) has no fixed       *)
(* order, so a method yields the set of the runs that some order produces. *)
(***************************************************************************)
held(e) == UNION Range(e.children_by_distance)

\* the object a new LightEntry(basepath) is: distinct from those already held
new_entry(e, basepath) ==
    LightEntry(basepath, Cardinality({ c \in held(e) : c.path = basepath }))

add_entry(e, entry, distance) ==
    [e EXCEPT !.children_by_distance[distance] = @ \cup { entry },
              !.children_by_level[entry.level] = @ \cup { entry }]

get_new_paths(e, distance) == glob(e.light.path, distance) \ e.path_cache

\* add_entry(LightEntry(basepath), distance) for each basepath of a set
RECURSIVE add_entries(_, _, _)
add_entries(e, paths, distance) ==
    IF paths = {} THEN e
    ELSE LET basepath == CHOOSE p \in paths : TRUE
         IN  add_entries(add_entry(e, new_entry(e, basepath), distance),
                         paths \ { basepath }, distance)

\* the exception raised when the loop body is run for basepath at a distance:
\* LightEntry() opens the descriptor, then add_entry indexes the bucket
raised_by(e, basepath, distance, adds) ==
    IF ~ has_info(basepath) THEN "FileNotFoundError"
    ELSE IF adds /\ distance \notin DOMAIN e.children_by_distance THEN "KeyError"
    ELSE "none"

\* one turn of the loop of _fill_distance, for distance d
fill_distance_step(x, d) ==
    LET e1    == [x.e EXCEPT !.distances_searched = @ \cup { d }]
        paths == get_new_paths(e1, d)
        fails == { p \in paths : raised_by(e1, p, d, TRUE) # "none" }
    IN  IF fails = {}
        THEN { [e     |-> [add_entries(e1, paths, d) EXCEPT !.path_cache = @ \cup paths],
                exc   |-> "none",
                globs |-> x.globs \cup { d },
                loads |-> x.loads \cup paths] }
        ELSE { [e     |-> add_entries(e1, done, d),
                exc   |-> raised_by(e1, f, d, TRUE),
                globs |-> x.globs \cup { d },
                loads |-> x.loads \cup done \cup { f }]
               : f \in fails, done \in SUBSET (paths \ fails) }

(***************************************************************************)
(* A Python set of integers, as CPython keeps it: a hash table whose size   *)
(* is a power of two, a key in the first free slot of its probe sequence.  *)
(* A loop over the set takes the keys in the order of their slots, so the  *)
(* order depends on how the set was built.  The table of a set is a        *)
(* function from the slots 0..mask to {} (free) or { key }.  No key is     *)
(* ever removed from a set that receives keys afterwards.                  *)
(***************************************************************************)
\* hash(n) of an integer below 2^61 - 1 in size: the integer itself, but -2 for -1
hash(n) == IF n = 0 - 1 THEN 0 - 2 ELSE n

\* the slots of an empty set
PySet_MINSIZE == 8

\* the slots tried in a row before the probe sequence jumps
LINEAR_PROBES == 9

\* the bits by which the perturbation is shifted at each jump
PERTURB_SHIFT == 5

\* the hash as the unsigned 64-bit number it is probed with, shifted right k
\* times by PERTURB_SHIFT, up to a multiple of 512.  A hash below 2^30 in
\* size is all zeros from the sixth shift on, or all ones when negative,
\* until the 64 bits run out
perturb(h, k) ==
    IF h >= 0 THEN (IF k >= 6 THEN 0 ELSE h \div (2 ^ (PERTURB_SHIFT * k)))
    ELSE IF k >= 13 THEN 0
    ELSE IF k = 12 THEN 15
    ELSE IF k >= 6 THEN 0 - 1
    ELSE h \div (2 ^ (PERTURB_SHIFT * k))

empty_set == [mask |-> PySet_MINSIZE - 1, table |-> [i \in 0..(PySet_MINSIZE - 1) |-> {}]]

\* the keys of a set, and their number
keys(so) == UNION { so.table[i] : i \in DOMAIN so.table }

used(so) == Cardinality(keys(so))

\* the free slot a key of hash h is put in: from slot i the next
\* LINEAR_PROBES slots are tried when they are all in the table, then the
\* sequence jumps to (i * 5 + 1 + perturb) & mask
RECURSIVE free_slot(_, _, _, _)
free_slot(so, h, i, k) ==
    LET probes == IF i + LINEAR_PROBES <= so.mask THEN LINEAR_PROBES ELSE 0
        free   == { j \in i..(i + probes) : so.table[j] = {} }
    IN  IF free # {} THEN CHOOSE j \in free : \A o \in free : j <= o
        ELSE free_slot(so, h, (i * 5 + 1 + perturb(h, k + 1)) % (so.mask + 1), k + 1)

\* set_insert_clean: a key that is not in the set goes to its free slot
set_insert_clean(so, key) ==
    [so EXCEPT !.table[free_slot(so, hash(key), hash(key) % (so.mask + 1), 0)] = { key }]

\* the keys in the order of their slots: the order in which a loop, a
\* copy and the unpacking *set take them
list(so) ==
    LET taken == { i \in DOMAIN so.table : so.table[i] # {} }
    IN  [k \in 1..Cardinality(taken) |->
            LET i == CHOOSE j \in taken : Cardinality({ o \in taken : o < j }) = k - 1
            IN  CHOOSE n \in so.table[i] : TRUE]

\* the keys of a sequence put one by one into a table with room for them:
\* a key goes to the slot of its hash when that is free, and along its
\* probe sequence otherwise
RECURSIVE insert_clean_all(_, _)
insert_clean_all(so, seq) ==
    IF seq = << >> THEN so
    ELSE LET key == Head(seq)
             i   == hash(key) % (so.mask + 1)
         IN  IF so.table[i] = {}
             THEN insert_clean_all([so EXCEPT !.table[i] = { key }], Tail(seq))
             ELSE insert_clean_all(set_insert_clean(so, key), Tail(seq))

\* the smallest power of two from size on that is above minused
RECURSIVE newsize(_, _)
newsize(size, minused) == IF size <= minused THEN newsize(2 * size, minused) ELSE size

\* set_table_resize: a new table of more than minused slots, the keys
\* re-inserted in the order of their old slots
set_table_resize(so, minused) ==
    LET size == newsize(PySet_MINSIZE, minused)
    IN  insert_clean_all([mask |-> size - 1, table |-> [i \in 0..(size - 1) |-> {}]],
                         list(so))

\* set.add(key): the table grows fourfold in keys once it is 3/5 full
set_add_key(so, key) ==
    IF key \in keys(so) THEN so
    ELSE LET s1 == set_insert_clean(so, key)
         IN  IF used(s1) * 5 < s1.mask * 3 THEN s1
             ELSE set_table_resize(s1, used(s1) * 4)

\* set.update(iterable) for a list, a tuple or a range: key by key, a key
\* that is in the set already being passed over
RECURSIVE set_update(_, _)
set_update(so, seq) ==
    IF seq = << >> THEN so
    ELSE IF Head(seq) \in keys(so) THEN set_update(so, Tail(seq))
    ELSE set_update(set_add_key(so, Head(seq)), Tail(seq))

\* set(iterable)
set(seq) == set_update(empty_set, seq)

\* range(a, b) as the list of its numbers
range(a, b) == [i \in 1..(b - a) |-> a + i - 1]

\* set.update(other) for another set (set_merge): one resize at the start,
\* then a table of the same size is copied slot by slot into an empty set,
\* and otherwise the keys are put in in the order of their slots in other
set_merge(so, other) ==
    IF used(other) = 0 THEN so
    ELSE LET s1 == IF (used(so) + used(other)) * 5 >= so.mask * 3
                   THEN set_table_resize(so, (used(so) + used(other)) * 2)
                   ELSE so
         IN  IF used(s1) = 0 /\ s1.mask = other.mask THEN other
             ELSE IF used(s1) = 0 THEN insert_clean_all(s1, list(other))
             ELSE set_update(s1, list(other))

\* so - other, where other is a set of which only the keys matter: when so
\* has more than four times the keys of other it is copied and the keys of
\* other are taken out of the copy, and otherwise the keys of so that are
\* not in other are put into a new set in the order of their slots
set_difference(so, other) ==
    IF used(so) \div 4 > Cardinality(other)
    THEN LET copy == set_merge(empty_set, so)
         IN  [copy EXCEPT !.table = [i \in DOMAIN copy.table |-> copy.table[i] \ other]]
    ELSE set(SelectSeq(list(so), LAMBDA n : n \notin other))

\* the loop of _fill_distance over the distances ds, in their order
RECURSIVE fill_distance_loop(_, _)
fill_distance_loop(x, ds) ==
    IF ds = << >> THEN { x }
    ELSE UNION { IF y.exc = "none" THEN fill_distance_loop(y, Tail(ds))
                 ELSE { y }
                 : y \in fill_distance_step(x, Head(ds)) }

\* _fill_distance(*distances): the loop runs over
\* set(distances) - self._distances_searched
fill_distance(x, distances) ==
    fill_distance_loop(x, list(set_difference(set(distances), x.e.distances_searched)))

\* one turn of the second loop of _fill_level, for distance d
fill_level_step(x, d, levels) ==
    LET paths == get_new_paths(x.e, d)
        wanted(p) == has_info(p) /\ fs[p].level \in levels
        fails == { p \in paths : raised_by(x.e, p, d, wanted(p)) # "none" }
        keep(ps) == { p \in ps : wanted(p) }
    IN  IF fails = {}
        THEN { [e     |-> [add_entries(x.e, keep(paths), d)
                             EXCEPT !.path_cache = @ \cup keep(paths)],
                exc   |-> "none",
                globs |-> x.globs \cup { d },
                loads |-> x.loads \cup paths] }
        ELSE { [e     |-> [add_entries(x.e, keep(done), d)
                             EXCEPT !.path_cache = @ \cup keep(done)],
                exc   |-> raised_by(x.e, f, d, wanted(f)),
                globs |-> x.globs \cup { d },
                loads |-> x.loads \cup done \cup { f }]
               : f \in fails, done \in SUBSET (paths \ fails) }

\* the second loop of _fill_level over the distances ds, in their order
RECURSIVE fill_level_loop(_, _, _)
fill_level_loop(x, ds, levels) ==
    IF ds = << >> THEN { x }
    ELSE UNION { IF y.exc = "none" THEN fill_level_loop(y, Tail(ds), levels)
                 ELSE { y }
                 : y \in fill_level_step(x, Head(ds), levels) }

Max(S) == CHOOSE m \in S : \A n \in S : n <= m

\* a depth bound that stops one level short
max_dist_short(e, levels) ==
    Max({ 0 } \cup { level_order(l) - level_order(e.light.level) - 1
                     : l \in levels \ e.levels_searched })

\* max_dist of _fill_level: over the levels not yet searched
max_dist(e, levels) ==
    Max({ 0 } \cup { level_order(l) - level_order(e.light.level)
                     : l \in levels \ e.levels_searched })

\* distances of _fill_level:
\* set(range(1, max_dist+1)) - self._distances_searched, as the loop takes them
level_distances(e, levels) ==
    list(set_difference(set(range(1, max_dist(e, levels) + 1)), e.distances_searched))

\* a rank scan that does not record the ranks it searched
fill_level_unrecorded(x, levels) ==
    fill_level_loop(x, level_distances(x.e, levels), levels)

fill_level(x, levels) ==
    LET e1 == [x.e EXCEPT !.levels_searched = @ \cup levels]
    IN  fill_level_loop([x EXCEPT !.e = e1], level_distances(x.e, levels), levels)

(***************************************************************************)
(* A KeyboardInterrupt can leave a method between any two statements.  The *)
(* operators below give the runs a method can be abandoned in: the Entry   *)
(* as it then is, with what was enumerated and loaded until then.          *)
(***************************************************************************)
\* _add_entry left after its first statement: the entry is in the bucket of
\* its distance and not yet in the bucket of its rank
half_added(e, basepath, distance) ==
    [e EXCEPT !.children_by_distance[distance] = @ \cup { new_entry(e, basepath) }]

\* one turn of the loop of _fill_distance, for distance d, left halfway:
\* before the distance is recorded, before the directories are enumerated,
\* or with some paths added and one more path loaded, or loaded and half added
interrupted_distance_step(x, d) ==
    LET e1    == [x.e EXCEPT !.distances_searched = @ \cup { d }]
        x1    == [x EXCEPT !.e = e1]
        paths == get_new_paths(e1, d)
        good  == { p \in paths : raised_by(e1, p, d, TRUE) = "none" }
    IN  { x, x1 } \cup
        UNION { LET x2 == [x1 EXCEPT !.e = add_entries(e1, done, d),
                                     !.globs = @ \cup { d },
                                     !.loads = @ \cup done]
                IN  { x2 }
                    \cup { [x2 EXCEPT !.loads = @ \cup { p }]
                           : p \in { f \in paths \ done : has_info(f) } }
                    \cup { [x2 EXCEPT !.loads = @ \cup { p },
                                      !.e = half_added(x2.e, p, d)]
                           : p \in good \ done }
                : done \in SUBSET good }

RECURSIVE interrupted_distance_loop(_, _)
interrupted_distance_loop(x, ds) ==
    IF ds = << >> THEN { x }
    ELSE interrupted_distance_step(x, Head(ds)) \cup
         UNION { IF y.exc = "none" THEN interrupted_distance_loop(y, Tail(ds))
                 ELSE {}
                 : y \in fill_distance_step(x, Head(ds)) }

\* _fill_distance left halfway, or just after its last statement
interrupted_fill_distance(x, distances) ==
    interrupted_distance_loop(x, list(set_difference(set(distances),
                                                     x.e.distances_searched)))

\* one turn of the second loop of _fill_level, for distance d, left halfway:
\* an entry that matches is added (in two statements) and then marked as seen
interrupted_level_step(x, d, levels) ==
    LET paths == get_new_paths(x.e, d)
        wanted(p) == has_info(p) /\ fs[p].level \in levels
        good  == { p \in paths : raised_by(x.e, p, d, wanted(p)) = "none" }
        keep(ps) == { p \in ps : wanted(p) }
    IN  { x } \cup
        UNION { LET x2 == [x EXCEPT !.e = [add_entries(x.e, keep(done), d)
                                             EXCEPT !.path_cache = @ \cup keep(done)],
                                    !.globs = @ \cup { d },
                                    !.loads = @ \cup done]
                IN  { x2 }
                    \cup { [x2 EXCEPT !.loads = @ \cup { p }]
                           : p \in { f \in paths \ done : has_info(f) } }
                    \cup { [x2 EXCEPT !.loads = @ \cup { p },
                                      !.e = half_added(x2.e, p, d)]
                           : p \in keep(good \ done) }
                    \cup { [x2 EXCEPT !.loads = @ \cup { p },
                                      !.e = add_entry(x2.e, new_entry(x2.e, p), d)]
                           : p \in keep(good \ done) }
                : done \in SUBSET good }

RECURSIVE interrupted_level_loop(_, _, _)
interrupted_level_loop(x, ds, levels) ==
    IF ds = << >> THEN { x }
    ELSE interrupted_level_step(x, Head(ds), levels) \cup
         UNION { IF y.exc = "none" THEN interrupted_level_loop(y, Tail(ds), levels)
                 ELSE {}
                 : y \in fill_level_step(x, Head(ds), levels) }

\* _fill_level left halfway: in its first loop (some of the new ranks
\* recorded) or in its second, or just after its last statement
interrupted_fill_level(x, levels) ==
    LET e1 == [x.e EXCEPT !.levels_searched = @ \cup levels]
    IN  { [x EXCEPT !.e.levels_searched = @ \cup some]
          : some \in SUBSET (levels \ x.e.levels_searched) }
        \cup interrupted_level_loop([x EXCEPT !.e = e1],
                                    level_distances(x.e, levels), levels)

\* x.name() of the entries of a set, sorted as list.sort() sorts strings
RECURSIVE sorted_names(_)
sorted_names(entries) ==
    IF entries = {} THEN << >>
    ELSE LET first == CHOOSE c \in entries :
                         \A o \in entries : ~ str_less(name(o), name(c))
         IN  << name(first) >> \o sorted_names(entries \ { first })

\* the chain as the try block appends it, nearest ancestor first
RECURSIVE ancestors_unreversed(_)
ancestors_unreversed(entry) ==
    IF has_parent(entry) THEN << parent(entry) >> \o ancestors_unreversed(parent(entry))
    ELSE << >>

\* the chain built by the try block of __init__, already reversed
RECURSIVE ancestors_of(_)
ancestors_of(entry) ==
    IF has_parent(entry) THEN ancestors_of(parent(entry)) \o << parent(entry) >>
    ELSE << >>

\* the fields of an Entry as __init__ sets them before the first scan
blank(basepath) ==
    [light                |-> LightEntry(basepath, 0),
     ancestors            |-> << >>,
     candidates           |-> << >>,
     path_cache           |-> {},
     children_by_distance |-> distance_dict,
     children_by_level    |-> level_dict,
     levels_searched      |-> {},
     distances_searched   |-> {}]

\* Entry(basepath): the runs of __init__
Entry(basepath) ==
    IF ~ has_info(basepath)
    THEN { [e |-> [light |-> [path |-> basepath]], exc |-> "FileNotFoundError",
            globs |-> {}, loads |-> { basepath }] }
    ELSE LET start == [e |-> blank(basepath), exc |-> "none", globs |-> {},
                       loads |-> { basepath }]
         IN  { IF x.exc # "none" THEN x
               ELSE LET anc == ancestors_of(x.e.light)
                    IN  [x EXCEPT !.e.ancestors = anc,
                                  !.e.candidates =
                                      sorted_names(x.e.children_by_distance[1] \cup Range(anc)),
                                  !.loads = @ \cup { a.path : a \in Range(anc) }
                                             \cup { dirname(IF anc = << >> THEN basepath
                                                             ELSE anc[1].path) }]
               : x \in fill_distance(start, << 1 >>) }

\* the descriptors that the try block of __init__ opens, in the order it
\* opens them: those of the ancestors from the parent upwards, and the one
\* above the root, which is not there
RECURSIVE parents_loaded(_)
parents_loaded(p) ==
    IF has_info(dirname(p)) THEN << dirname(p) >> \o parents_loaded(dirname(p))
    ELSE << dirname(p) >>

\* Entry(basepath) left halfway: what it has enumerated and loaded by then
interrupted_Entry(basepath) ==
    { [globs |-> {}, loads |-> {}] } \cup
    IF ~ has_info(basepath) THEN {}
    ELSE LET start == [e |-> blank(basepath), exc |-> "none", globs |-> {},
                       loads |-> { basepath }]
             chain == parents_loaded(basepath)
         IN  { [globs |-> y.globs, loads |-> y.loads]
               : y \in interrupted_fill_distance(start, << 1 >>) }
             \cup UNION { IF y.exc # "none" THEN {}
                          ELSE { [globs |-> y.globs,
                                  loads |-> y.loads \cup { chain[i] : i \in 1..n }]
                                 : n \in 0..Len(chain) }
                          : y \in fill_distance(start, << 1 >>) }

(***************************************************************************)
(* Entry.command.  A run of command is a record                            *)
(*   e        the Entry the call returns (self when it raises),            *)
(*   exc      the exception that left the call, or "none",                 *)
(*   msg      the message printed, "" for none,                            *)
(*   matches  the name-filtered candidates of ls / goto / jump,            *)
(*   listing  the names printed, in the order printed,                     *)
(*   globs, loads  the directories enumerated and descriptors opened.      *)
(***************************************************************************)
quiet(self) == [e |-> self, exc |-> "none", msg |-> "", matches |-> {},
                listing |-> << >>, globs |-> {}, loads |-> {}]

\* a -d token applied to the set `distances`, as [ok, set]: a number is
\* added, the set of a range is merged in
parse_distance(distances, arg) ==
    LET s     == drop(arg, 2)
        parts == split_dots(s)
    IN  IF int_ok(s) THEN [ok |-> TRUE, set |-> set_add_key(distances, int(s))]
        ELSE IF Len(parts) = 2 /\ int_ok(parts[1]) /\ int_ok(parts[2])
        THEN [ok |-> TRUE,
              set |-> set_merge(distances, set(range(int(parts[1]), int(parts[2]) + 1)))]
        ELSE [ok |-> FALSE, set |-> distances]

\* the argument loop of ls / goto, from argument i on
RECURSIVE parse_args(_, _, _)
parse_args(args, i, q) ==
    IF i > Len(args) THEN q
    ELSE LET arg == args[i]
         IN  IF startswith(arg, << "-", "d" >>)
             THEN LET d == parse_distance(q.distances, arg)
                  IN  IF d.ok
                      THEN parse_args(args, i + 1, [q EXCEPT !.distances = d.set])
                      ELSE [q EXCEPT !.error = "Couldn't parse argument", !.bad = arg]
             ELSE IF startswith(arg, << "-", "l" >>)
             THEN LET l == parse_level(drop(arg, 2))
                  IN  IF l # << >>
                      THEN parse_args(args, i + 1, [q EXCEPT !.levels = @ \cup { l }])
                      ELSE [q EXCEPT !.error = "No such level", !.bad = drop(arg, 2)]
             ELSE parse_args(args, i + 1, [q EXCEPT !.names = @ \cup { arg }])

parse(args) ==
    parse_args(args, 1, [distances |-> empty_set, levels |-> {}, names |-> {},
                         error |-> "", bad |-> << >>])

\* distances after the default rule
effective_distances(q) ==
    IF keys(q.distances) = {} /\ q.levels = {} THEN set(<< 1 >>) ELSE q.distances

\* candidates of a query whose buckets are filled
candidates(e, distances, levels) ==
    LET distance_cands == UNION { e.children_by_distance[d] : d \in distances }
        level_cands    == UNION { e.children_by_level[l] : l \in levels }
    IN  IF distances # {} /\ levels # {} THEN distance_cands \cap level_cands
        ELSE IF distance_cands # {} THEN distance_cands
        ELSE level_cands

\* a goto that moves whenever anything matches
unique_or_first(matches) == Cardinality(matches) >= 1

\* len(matches) == 1
unique(matches) == Cardinality(matches) = 1

\* ls and goto, once the index is filled (x is the run of the two fills,
\* distances the keys of the set `distances`)
search_filled(x, cmd, distances, q) ==
    IF \E d \in distances : d \notin DOMAIN x.e.children_by_distance
    THEN { [quiet(x.e) EXCEPT !.exc = "KeyError", !.globs = x.globs, !.loads = x.loads] }
    ELSE LET matches == { c \in candidates(x.e, distances, q.levels) :
                            \A arg \in q.names : re_search(arg, name(c)) }
             stay    == [quiet(x.e) EXCEPT !.matches = matches,
                                           !.listing = sorted_names(matches),
                                           !.globs = x.globs, !.loads = x.loads]
         IN  IF cmd = << "g", "o", "t", "o" >>
             THEN IF unique(matches)
                  THEN LET target == CHOOSE c \in matches : TRUE
                       IN  { IF n.exc = "none"
                             THEN [quiet(n.e) EXCEPT !.matches = matches,
                                                     !.globs = x.globs \cup n.globs,
                                                     !.loads = x.loads \cup n.loads]
                             ELSE [quiet(x.e) EXCEPT !.exc = n.exc,
                                                     !.matches = matches,
                                                     !.globs = x.globs \cup n.globs,
                                                     !.loads = x.loads \cup n.loads]
                             : n \in Entry(target.path) }
                  ELSE { [stay EXCEPT !.msg = "No unique entry found:"] }
             ELSE { stay }

\* a search that fills the distances parsed so far before it reports a bad token
search_eager(self, cmd, args) ==
    LET q         == parse(args)
        distances == effective_distances(q)
        start     == [e |-> self, exc |-> "none", globs |-> {}, loads |-> {}]
    IN  IF q.error # ""
        THEN { [quiet(y.e) EXCEPT !.exc = y.exc, !.msg = q.error,
                                  !.globs = y.globs, !.loads = y.loads]
               : y \in fill_distance(start, list(q.distances)) }
        ELSE UNION { IF x.exc # "none"
                     THEN { [quiet(x.e) EXCEPT !.exc = x.exc,
                                               !.globs = x.globs, !.loads = x.loads] }
                     ELSE search_filled(x, cmd, keys(distances), q)
                     : x \in UNION { IF y.exc = "none" THEN fill_level(y, q.levels)
                                     ELSE { y }
                                     : y \in fill_distance(start, list(distances)) } }

\* the `ls` / `goto` branch from the end of its argument loop, which has
\* left the query q
search_parsed(self, cmd, q) ==
    IF q.error # "" THEN { [quiet(self) EXCEPT !.msg = q.error] }
    ELSE LET distances == effective_distances(q)
             start     == [e |-> self, exc |-> "none", globs |-> {}, loads |-> {}]
             filled    == UNION { IF y.exc = "none" THEN fill_level(y, q.levels)
                                  ELSE { y }
                                  : y \in fill_distance(start, list(distances)) }
         IN  UNION { IF x.exc # "none"
                     THEN { [quiet(x.e) EXCEPT !.exc = x.exc,
                                               !.globs = x.globs, !.loads = x.loads] }
                     ELSE search_filled(x, cmd, keys(distances), q)
                     : x \in filled }

\* the `ls` / `goto` branch: the arguments are parsed once
search(self, cmd, args) ==
    UNION { search_parsed(self, cmd, q) : q \in { parse(args) } }

\* the loop of the `p` branch: num steps up, while there is a parent
RECURSIVE climb(_, _)
climb(current, num) ==
    IF has_parent(current) /\ num > 0 THEN climb(parent(current), num - 1)
    ELSE current

\* the descriptors opened by current.parent() in that loop
RECURSIVE climbed(_, _)
climbed(current, num) ==
    IF has_parent(current) /\ num > 0
    THEN { dirname(current.path) } \cup climbed(parent(current), num - 1)
    ELSE {}

\* a move that carries the searched ranks of the old position along
move_to_carrying(self, basepath) ==
    { IF n.exc = "none"
      THEN [quiet([n.e EXCEPT !.levels_searched = self.levels_searched,
                              !.distances_searched = self.distances_searched])
              EXCEPT !.globs = n.globs, !.loads = n.loads]
      ELSE [quiet(self) EXCEPT !.exc = n.exc, !.globs = n.globs, !.loads = n.loads]
      : n \in Entry(basepath) }

\* a fresh Entry at basepath, as the result of a move made from self
move_to(self, basepath) ==
    { IF n.exc = "none"
      THEN [quiet(n.e) EXCEPT !.globs = n.globs, !.loads = n.loads]
      ELSE [quiet(self) EXCEPT !.exc = n.exc, !.globs = n.globs, !.loads = n.loads]
      : n \in Entry(basepath) }

\* the `p` branch
go_up(self, args) ==
    IF Len(args) > 0 /\ ~ int_ok(args[1])
    THEN { [quiet(self) EXCEPT !.msg = "Unable to parse as number"] }
    ELSE LET n   == IF Len(args) = 0 THEN 1 ELSE int(args[1])
             num == IF n > 1 THEN n ELSE 1
         IN  { [r EXCEPT !.loads = @ \cup climbed(self.light, num)]
               : r \in move_to(self, climb(self.light, num).path) }

\* a jump that compares the names as they are spelled
jump_exact_case(self, cmd) ==
    LET matches == { c \in self.children_by_distance[1] \cup Range(self.ancestors) :
                        name(c) = cmd }
    IN  IF unique(matches)
        THEN { [r EXCEPT !.matches = matches]
               : r \in move_to(self, (CHOOSE c \in matches : TRUE).path) }
        ELSE { [quiet(self) EXCEPT !.msg = "Unrecognized command", !.matches = matches] }

\* the last branch: jump to an ancestor or a direct child by name
jump(self, cmd) ==
    LET matches == { c \in self.children_by_distance[1] \cup Range(self.ancestors) :
                        lower(name(c)) = cmd }
    IN  IF unique(matches)
        THEN { [r EXCEPT !.matches = matches]
               : r \in move_to(self, (CHOOSE c \in matches : TRUE).path) }
        ELSE { [quiet(self) EXCEPT !.msg = "Unrecognized command", !.matches = matches] }

\* the `path` branch prints the ancestors and the node itself
show_path(self) ==
    { [quiet(self) EXCEPT !.listing =
          [i \in 1..(Len(self.ancestors) + 1) |->
              IF i <= Len(self.ancestors) THEN name(self.ancestors[i])
              ELSE name(self.light)]] }

\* the `?` branch prints the info field or the notice that there is none
show_info(self) ==
    { [quiet(self) EXCEPT !.msg = IF fs[self.light.path].info THEN "info"
                                  ELSE "No info for"] }

\* a run of command that a KeyboardInterrupt cuts short: the Entry is self
\* as the scans left it, whatever the command was about to return
cut(x) == [quiet(x.e) EXCEPT !.globs = x.globs, !.loads = x.loads]

\* a move to basepath left halfway: the Entry built aside is lost, and what
\* it has enumerated and loaded is added to the run r
interrupted_move(r, basepath) ==
    { [r EXCEPT !.globs = @ \cup n.globs, !.loads = @ \cup n.loads]
      : n \in interrupted_Entry(basepath) }

\* ls and goto left after the two fills (x is their run): before or after
\* the candidates are filtered, while the Entry of the one match is built,
\* after the notice of a goto, or between two lines of the listing
interrupted_filled(x, cmd, distances, q) ==
    IF \E d \in distances : d \notin DOMAIN x.e.children_by_distance
    THEN { cut(x) }
    ELSE LET matches == { c \in candidates(x.e, distances, q.levels) :
                            \A arg \in q.names : re_search(arg, name(c)) }
             found   == [cut(x) EXCEPT !.matches = matches]
             told    == IF cmd = << "g", "o", "t", "o" >>
                        THEN [found EXCEPT !.msg = "No unique entry found:"]
                        ELSE found
             names   == sorted_names(matches)
         IN  { cut(x), found } \cup
             IF cmd = << "g", "o", "t", "o" >> /\ unique(matches)
             THEN interrupted_move(found, (CHOOSE c \in matches : TRUE).path)
             ELSE { [told EXCEPT !.listing = SubSeq(names, 1, n)]
                    : n \in 0..Len(names) }

\* the `ls` / `goto` branch left halfway: while the arguments are parsed
\* (a bad token may have been reported), in one of the two fills, or after
interrupted_search_parsed(self, cmd, q) ==
    IF q.error # "" THEN { quiet(self), [quiet(self) EXCEPT !.msg = q.error] }
    ELSE LET distances == effective_distances(q)
             start     == [e |-> self, exc |-> "none", globs |-> {}, loads |-> {}]
             after_d   == { y \in fill_distance(start, list(distances)) :
                               y.exc = "none" }
             after_l   == { x \in UNION { fill_level(y, q.levels) : y \in after_d } :
                               x.exc = "none" }
         IN  { cut(y) : y \in interrupted_fill_distance(start, list(distances)) }
             \cup { cut(z) : z \in UNION { interrupted_fill_level(y, q.levels)
                                          : y \in after_d } }
             \cup UNION { interrupted_filled(x, cmd, keys(distances), q)
                          : x \in after_l }

interrupted_search(self, cmd, args) ==
    UNION { interrupted_search_parsed(self, cmd, q) : q \in { parse(args) } }

\* the descriptors opened by the loop of the `p` branch, in the order it
\* opens them
RECURSIVE climb_loaded(_, _)
climb_loaded(current, num) ==
    IF has_parent(current) /\ num > 0
    THEN << dirname(current.path) >> \o climb_loaded(parent(current), num - 1)
    ELSE << >>

\* the `p` branch left halfway by a KeyboardInterrupt that reaches the
\* caller: before the number is parsed, after the notice of a bad number,
\* in the loop, or while the Entry of the ancestor is built
interrupted_go_up(self, args) ==
    IF Len(args) > 0 /\ ~ int_ok(args[1])
    THEN { quiet(self), [quiet(self) EXCEPT !.msg = "Unable to parse as number"] }
    ELSE LET n     == IF Len(args) = 0 THEN 1 ELSE int(args[1])
             num   == IF n > 1 THEN n ELSE 1
             chain == climb_loaded(self.light, num)
         IN  { [quiet(self) EXCEPT !.loads = { chain[i] : i \in 1..k }]
               : k \in 0..Len(chain) }
             \cup interrupted_move([quiet(self) EXCEPT !.loads = Range(chain)],
                                   climb(self.light, num).path)

\* the last branch left halfway: before or after the names are compared,
\* while the Entry of the one match is built, or after the notice
interrupted_jump(self, cmd) ==
    LET matches == { c \in self.children_by_distance[1] \cup Range(self.ancestors) :
                        lower(name(c)) = cmd }
        found   == [quiet(self) EXCEPT !.matches = matches]
    IN  { quiet(self), found } \cup
        IF unique(matches)
        THEN interrupted_move(found, (CHOOSE c \in matches : TRUE).path)
        ELSE { [found EXCEPT !.msg = "Unrecognized command"] }

\* Entry.command left by a KeyboardInterrupt that reaches the caller: the
\* runs it can be abandoned in.  Only ls and goto change self; a move
\* builds its Entry aside; path and ? are left before or after they print
interrupted(self, line) ==
    LET cmd  == lower(Head(line))
        args == Tail(line)
    IN  IF cmd = << "p", "a", "t", "h" >> THEN { quiet(self) } \cup show_path(self)
        ELSE IF cmd \in { << "l", "s" >>, << "g", "o", "t", "o" >> }
        THEN interrupted_search(self, cmd, args)
        ELSE IF cmd = << "p" >> THEN interrupted_go_up(self, args)
        ELSE IF cmd = << "?" >> THEN { quiet(self) } \cup show_info(self)
        ELSE interrupted_jump(self, cmd)

\* the try block of the `p` branch (max(int(args[0]), 1)) left by a
\* KeyboardInterrupt: the bare except takes it for a bad number, reports the
\* argument and returns self; with no argument the report itself raises
\* IndexError
interrupted_number(self, args) ==
    IF Len(args) > 0 THEN [quiet(self) EXCEPT !.msg = "Unable to parse as number"]
    ELSE [quiet(self) EXCEPT !.exc = "IndexError"]

\* Entry.command(command, *args) for the command line <<command>> \o args
command(self, line) ==
    LET cmd  == lower(Head(line))
        args == Tail(line)
    IN  IF cmd = << "p", "a", "t", "h" >> THEN show_path(self)
        ELSE IF cmd \in { << "l", "s" >>, << "g", "o", "t", "o" >> }
        THEN search(self, cmd, args)
        ELSE IF cmd = << "p" >> THEN go_up(self, args)
        ELSE IF cmd = << "?" >> THEN show_info(self)
        ELSE jump(self, cmd)

(***************************************************************************)
(* The command lines typed at the prompt (shlex.split(input('> '))).       *)
(***************************************************************************)
RECURSIVE digits_of(_)
digits_of(n) == IF n < 10 THEN << DigitChars[n + 1] >>
                ELSE digits_of(n \div 10) \o << DigitChars[(n % 10) + 1] >>

\* the decimal text of an integer
str(n) == IF n < 0 THEN << "-" >> \o digits_of(0 - n) ELSE digits_of(n)

d_token(n) == << "-", "d" >> \o str(n)

range_token(a, b) == << "-", "d" >> \o str(a) \o << ".", "." >> \o str(b)

l_token(s) == << "-", "l" >> \o s

\* -d0, -d1, -d<MaxDist>, a distance above the bucket
\* keys, a full range, an empty range and a range from 0
DistanceTokens ==
    { d_token(0), d_token(1), d_token(MaxDist), d_token(Len(LEVELS)),
      range_token(1, MaxDist), range_token(2, 1), range_token(0, MaxDist) }

\* a rank by its name and by its short code in lower case
LevelTokens == { l_token(kingdom), l_token(<< "k" >>) }

BadTokens ==
    { << "-", "d", "x" >>, << "-", "d", "1", ".", ".", "2", ".", ".", "3" >>,
      << "-", "l", "x" >> }

NameTokens == { << "a" >>, << "B" >> }

Tokens == DistanceTokens \cup LevelTokens \cup BadTokens \cup NameTokens

\* argument lists of two tokens: a distance with a rank, a filter by name
\* after a distance, two names, and a malformed token after or before a
\* well-formed one
PairLists ==
    { << d_token(0), l_token(kingdom) >>, << d_token(MaxDist), l_token(kingdom) >>,
      << d_token(MaxDist), << "a" >> >>,
      << << "a" >>, << "B" >> >>,
      << d_token(MaxDist), << "-", "d", "x" >> >>,
      << << "-", "d", "x" >>, d_token(MaxDist) >>,
      << l_token(kingdom), << "-", "l", "x" >> >> }

\* argument lists of ls: no token, one token, two tokens
ArgLists == { << >> } \cup { << t >> : t \in Tokens } \cup PairLists

\* argument lists of goto
GotoArgLists ==
    { << >>, << d_token(0) >>, << d_token(MaxDist) >>, << d_token(Len(LEVELS)) >>,
      << l_token(kingdom) >>, << << "-", "l", "x" >> >>,
      << << "a" >> >>, << << "B" >> >>,
      << d_token(MaxDist), << "a" >> >>, << d_token(1), l_token(kingdom) >> }

SearchLines == { << << "l", "s" >> >> \o args : args \in ArgLists }
               \cup { << << "g", "o", "t", "o" >> >> \o args : args \in GotoArgLists }
               \cup { << << "L", "S" >> >>, << << "G", "o", "t", "o" >>, << "a" >> >> }

UpLines == { << << "p" >> >>, << << "P" >> >>, << << "p" >>, << "x" >> >>,
             << << "p" >>, << "1", ".", "5" >> >> }
           \cup { << << "p" >>, str(n) >> : n \in { 0 - 1, 0, 1, MaxUp } }

\* the names of the directories as typed, those of the root and of its
\* children also in lower case and in upper case, a word that names
\* nothing, and a name followed by a token
JumpLines == { << basename(p) >> : p \in DOMAIN fs }
             \cup { << lower(basename(p)) >> : p \in { q \in DOMAIN fs : Len(q) <= 2 } }
             \cup { << upper(basename(p)) >> : p \in { q \in DOMAIN fs : Len(q) <= 2 } }
             \cup { << << "z", "z" >> >>, << << "a", "b" >>, << "-", "d", "1" >> >> }

Lines == SearchLines \cup UpLines \cup JumpLines
         \cup { << << "p", "a", "t", "h" >> >>, << << "?" >> >> }

(***************************************************************************)
(* The main program: the loop starts a turn (pc = "start" before the first *)
(* one, "done" or "continue" after a turn), reads a line inside its try    *)
(* block (pc = "input") and hands it to level.command (pc = "command").    *)
(* A KeyboardInterrupt is caught in the try block only: between two turns, *)
(* on the break and continue statements and inside an except clause it     *)
(* ends the program.                                                       *)
(***************************************************************************)
printed(r) == [exc |-> r.exc, msg |-> r.msg, matches |-> r.matches,
               listing |-> r.listing, globs |-> r.globs, loads |-> r.loads]

nothing == [exc |-> "none", msg |-> "", matches |-> {}, listing |-> << >>,
            globs |-> {}, loads |-> {}]

\* level = Entry(path.join(basepath, 'Life')) on each of the trees
Init ==
    /\ fs \in Trees
    /\ \E n \in Entry(RootPath) :
          /\ level = n.e
          /\ pc = IF n.exc = "none" THEN "start" ELSE "crashed"
    /\ command_line = << >>
    /\ out = nothing

\* command = shlex.split(input('> '))
Read ==
    /\ pc = "input"
    /\ \E line \in Lines \cup { << << "h", "e", "l", "p" >> >>, << << "e", "x", "i", "t" >> >> } :
          command_line' = line
    /\ pc' = "command"
    /\ UNCHANGED <<fs, level, out>>

\* the words that Entry.command knows; any other word is taken for a name
COMMANDS == { << "p", "a", "t", "h" >>, << "l", "s" >>, << "g", "o", "t", "o" >>,
              << "p" >>, << "?" >> }

\* the line in hand goes to level.command (not help, not exit)
Dispatched ==
    /\ pc = "command"
    /\ Head(command_line) \notin { << "h", "e", "l", "p" >>, << "e", "x", "i", "t" >> }

\* level = level.command(*command), for each branch of command; an
\* exception that leaves command ends the program
Ls ==
    /\ Dispatched
    /\ lower(Head(command_line)) = << "l", "s" >>
    /\ \E r \in command(level, command_line) :
          /\ level' = r.e
          /\ pc' = IF r.exc = "none" THEN "done" ELSE "crashed"
          /\ out' = printed(r)
    /\ UNCHANGED <<fs, command_line>>

Goto ==
    /\ Dispatched
    /\ lower(Head(command_line)) = << "g", "o", "t", "o" >>
    /\ \E r \in command(level, command_line) :
          /\ level' = r.e
          /\ pc' = IF r.exc = "none" THEN "done" ELSE "crashed"
          /\ out' = printed(r)
    /\ UNCHANGED <<fs, command_line>>

Up ==
    /\ Dispatched
    /\ lower(Head(command_line)) = << "p" >>
    /\ \E r \in command(level, command_line) :
          /\ level' = r.e
          /\ pc' = IF r.exc = "none" THEN "done" ELSE "crashed"
          /\ out' = printed(r)
    /\ UNCHANGED <<fs, command_line>>

Path ==
    /\ Dispatched
    /\ lower(Head(command_line)) = << "p", "a", "t", "h" >>
    /\ \E r \in command(level, command_line) :
          /\ level' = r.e
          /\ pc' = IF r.exc = "none" THEN "done" ELSE "crashed"
          /\ out' = printed(r)
    /\ UNCHANGED <<fs, command_line>>

Info ==
    /\ Dispatched
    /\ lower(Head(command_line)) = << "?" >>
    /\ \E r \in command(level, command_line) :
          /\ level' = r.e
          /\ pc' = IF r.exc = "none" THEN "done" ELSE "crashed"
          /\ out' = printed(r)
    /\ UNCHANGED <<fs, command_line>>

Jump ==
    /\ Dispatched
    /\ lower(Head(command_line)) \notin COMMANDS
    /\ \E r \in command(level, command_line) :
          /\ level' = r.e
          /\ pc' = IF r.exc = "none" THEN "done" ELSE "crashed"
          /\ out' = printed(r)
    /\ UNCHANGED <<fs, command_line>>

\* `help` prints the guide
Help ==
    /\ pc = "command"
    /\ Head(command_line) = << "h", "e", "l", "p" >>
    /\ pc' = "done"
    /\ out' = [nothing EXCEPT !.msg = "help"]
    /\ UNCHANGED <<fs, level, command_line>>

\* `exit` leaves the loop
Exit ==
    /\ pc = "command"
    /\ Head(command_line) = << "e", "x", "i", "t" >>
    /\ pc' = "exited"
    /\ UNCHANGED <<fs, level, command_line, out>>

\* `if not command: continue`: an empty line
Blank ==
    /\ pc = "input"
    /\ pc' = "continue"
    /\ command_line' = << >>
    /\ out' = nothing
    /\ UNCHANGED <<fs, level>>

\* except EOFError: end of input at the prompt leaves the loop
Eof ==
    /\ pc = "input"
    /\ pc' = "exited"
    /\ out' = [nothing EXCEPT !.exc = "EOFError"]
    /\ UNCHANGED <<fs, level, command_line>>

\* except KeyboardInterrupt, raised at the prompt: continue
InterruptPrompt ==
    /\ pc = "input"
    /\ pc' = "continue"
    /\ out' = [nothing EXCEPT !.exc = "KeyboardInterrupt"]
    /\ UNCHANGED <<fs, level, command_line>>

\* what the loop itself has done with the line in hand when a
\* KeyboardInterrupt stops it: help has printed the guide or not yet
interrupted_turn(self, line) ==
    IF Head(line) = << "h", "e", "l", "p" >>
    THEN { quiet(self), [quiet(self) EXCEPT !.msg = "help"] }
    ELSE IF Head(line) = << "e", "x", "i", "t" >> THEN { quiet(self) }
    ELSE interrupted(self, line)

\* except KeyboardInterrupt, raised while the line in hand is carried out:
\* the command is abandoned where it is, `level` is not assigned, and the
\* loop goes on with the Entry as the command left it
Interrupt ==
    /\ pc = "command"
    /\ \E r \in interrupted_turn(level, command_line) :
          /\ level' = r.e
          /\ out' = printed([r EXCEPT !.exc = "KeyboardInterrupt"])
    /\ pc' = "continue"
    /\ command_line' = << >>
    /\ UNCHANGED fs

\* a KeyboardInterrupt raised in the try block of the `p` branch is caught
\* by its bare except and never reaches the loop: the command returns self
\* after its notice, or fails on the argument that is not there
InterruptNumber ==
    /\ Dispatched
    /\ lower(Head(command_line)) = << "p" >>
    /\ LET r == interrupted_number(level, Tail(command_line))
       IN  /\ level' = r.e
           /\ pc' = IF r.exc = "none" THEN "done" ELSE "crashed"
           /\ out' = printed(r)
    /\ UNCHANGED <<fs, command_line>>

\* a KeyboardInterrupt raised on `break` or on the `continue` after help,
\* which are past the end of the try block: nothing catches it
InterruptLeaving ==
    /\ pc = "command"
    /\ Head(command_line) \in { << "h", "e", "l", "p" >>, << "e", "x", "i", "t" >> }
    /\ pc' = "crashed"
    /\ out' = [nothing EXCEPT !.exc = "KeyboardInterrupt",
                              !.msg = IF Head(command_line) = << "h", "e", "l", "p" >>
                                      THEN "help" ELSE ""]
    /\ UNCHANGED <<fs, level, command_line>>

\* a KeyboardInterrupt raised inside `except EOFError:`, before the break
InterruptEof ==
    /\ pc = "input"
    /\ pc' = "crashed"
    /\ out' = [nothing EXCEPT !.exc = "KeyboardInterrupt"]
    /\ UNCHANGED <<fs, level, command_line>>

\* a KeyboardInterrupt raised between two turns (while True, set_completer,
\* the continue of an empty line or of the except clause): nothing catches it
InterruptLoop ==
    /\ pc \in { "start", "done", "continue" }
    /\ pc' = "crashed"
    /\ command_line' = << >>
    /\ out' = [nothing EXCEPT !.exc = "KeyboardInterrupt"]
    /\ UNCHANGED <<fs, level>>

\* while True: the next turn of the loop
Loop ==
    /\ pc \in { "start", "done", "continue" }
    /\ pc' = "input"
    /\ command_line' = << >>
    /\ out' = nothing
    /\ UNCHANGED <<fs, level>>

Next == \/ Read \/ Blank \/ Eof \/ InterruptPrompt
        \/ Ls \/ Goto \/ Up \/ Path \/ Info \/ Jump \/ Help \/ Exit
        \/ Interrupt \/ InterruptNumber \/ InterruptLeaving \/ InterruptEof
        \/ InterruptLoop \/ Loop

Spec == Init /\ [][Next]_vars

\* the same program started on a tree with a directory that has no descriptor
InitBroken ==
    /\ fs \in BrokenTrees
    /\ \E n \in Entry(RootPath) :
          /\ level = n.e
          /\ pc = IF n.exc = "none" THEN "start" ELSE "crashed"
    /\ command_line = << >>
    /\ out = nothing

SpecBroken == InitBroken /\ [][Next]_vars

(***************************************************************************)
(* Vocabulary of the properties.                                           *)
(***************************************************************************)
ls == << "l", "s" >>

goto == << "g", "o", "t", "o" >>

\* the command word of the line in hand, and its arguments
Word == lower(Head(command_line))

Args == Tail(command_line)

\* a command was handed to level.command and has returned
Returned == pc = "done" /\ Word \notin { << "h", "e", "l", "p" >> }

\* the step in which level.command runs the line in hand and returns
Returns == pc = "command" /\ pc' = "done"

\* the step in which the line in hand is abandoned on a KeyboardInterrupt
Abandoned == pc = "command" /\ pc' = "continue"

ParseErrors == { "Couldn't parse argument", "No such level", "Unable to parse as number" }

Paths(entries) == { c.path : c \in entries }

\* the directories exactly d levels below a directory
Below(base, d) == { p \in DOMAIN fs : /\ Len(p) = Len(base) + d
                                      /\ SubSeq(p, 1, Len(base)) = base }

\* the state of an Entry that has just been built at a directory
Fresh(basepath) ==
    LET children == { LightEntry(p, 0) : p \in Below(basepath, 1) }
        chain    == [i \in 1..(Len(basepath) - 1) |-> LightEntry(SubSeq(basepath, 1, i), 0)]
    IN  [light                |-> LightEntry(basepath, 0),
         ancestors            |-> chain,
         candidates           |-> sorted_names(children \cup Range(chain)),
         path_cache           |-> Below(basepath, 1),
         children_by_distance |-> [d \in DOMAIN distance_dict |->
                                      IF d = 1 THEN children ELSE {}],
         children_by_level    |-> [l \in LevelNames |-> { c \in children : c.level = l }],
         levels_searched      |-> {},
         distances_searched   |-> { 1 }]

\* the run of `ls args` on an Entry (one run, unless it raises)
LsRun(e, args) == CHOOSE r \in search(e, ls, args) : TRUE

(***************************************************************************)
(* C1.  goto moves the navigator, to the matched node, if and only if the  *)
(* name-filtered candidate set (the set `ls` lists for the same arguments) *)
(* has exactly one element; with no or several candidates the navigator    *)
(* stays at its node and keeps its Entry.  A goto that raises or is        *)
(* abandoned on a KeyboardInterrupt has no candidate set and moves         *)
(* nowhere.                                                                *)
(***************************************************************************)
C1_GotoMovesIffUnique ==
    [][ (pc = "command" /\ Word = goto) =>
          LET listed == LsRun(level, Args)
              found  == out'.matches
          IN  IF pc' = "done"
              THEN /\ Paths(found) = Paths(listed.matches)
                   /\ IF Cardinality(found) = 1
                      THEN /\ level'.light.path = (CHOOSE c \in found : TRUE).path
                           /\ level' = Fresh(level'.light.path)
                           /\ out'.msg = ""
                      ELSE /\ level' = listed.e
                           /\ level'.light = level.light
                           /\ out'.msg \in ParseErrors \cup { "No unique entry found:" }
              ELSE level'.light = level.light ]_vars

\* a goto with a rank and a name has found one node below the root and is there
C1_Witness ==
    /\ Returned /\ Word = goto
    /\ Len(Args) = 2
    /\ Cardinality(out.matches) = 1
    /\ Len(level.light.path) > 1
    /\ Paths(out.matches) = { level.light.path }

(***************************************************************************)
(* C2.  An ls request issued a second time in a row at the same position   *)
(* returns the same result set, enumerates no directory, loads no          *)
(* descriptor and leaves the index as it is.                               *)
(***************************************************************************)
C2_SecondRequestIsCached ==
    (Returned /\ Word = ls) =>
        \A again \in command(level, command_line) :
            /\ again.exc = "none"
            /\ again.matches = out.matches
            /\ again.listing = out.listing
            /\ again.globs = {}
            /\ again.loads = {}
            /\ again.e = level

\* an ls with a rank argument has just scanned directories and found a node
C2_Witness ==
    /\ Returned /\ Word = ls
    /\ \E t \in LevelTokens : Args = << t >>
    /\ out.globs # {}
    /\ out.loads # {}
    /\ out.matches # {}

(***************************************************************************)
(* C3.  At every position, after any queries, for every range a..b of      *)
(* bucket distances, ls -d<a>..<b> lists exactly the union of what         *)
(* ls -d<a>, ..., ls -d<b> list, and no directory is listed twice.         *)
(***************************************************************************)
C3_RangeIsUnionOfDistances ==
    pc = "input" =>
        \A a \in 0..MaxDist : \A b \in a..MaxDist :
            LET whole  == LsRun(level, << range_token(a, b) >>)
                single(k) == LsRun(level, << d_token(k) >>)
            IN  /\ whole.exc = "none"
                /\ \A k \in a..b : single(k).exc = "none"
                /\ whole.matches = UNION { single(k).matches : k \in a..b }
                /\ \A c1, c2 \in whole.matches : c1.path = c2.path => c1 = c2
                /\ Cardinality(whole.matches) = Len(whole.listing)

(***************************************************************************)
(* C4.  In ls and goto the distance set defaults to {1} if and only if     *)
(* the argument list holds no distance token (-d...) and no rank token     *)
(* (-l...).                                                                *)
(***************************************************************************)
DefaultApplied(args) ==
    /\ keys(parse(args).distances) = {}
    /\ keys(effective_distances(parse(args))) = { 1 }

NoDistanceOrRankToken(args) ==
    \A i \in 1..Len(args) : /\ ~ startswith(args[i], << "-", "d" >>)
                            /\ ~ startswith(args[i], << "-", "l" >>)

C4_DefaultIffNoToken ==
    (Returned /\ Word \in { ls, goto } /\ out.msg \notin ParseErrors) =>
        (DefaultApplied(Args) <=> NoDistanceOrRankToken(Args))

(***************************************************************************)
(* C5.  p n moves the navigator up min(max(n, 1), number of ancestors)     *)
(* levels (n is 1 when not given); when n exceeds the depth the navigator  *)
(* ends at the root, and no error is raised.  A p that the loop abandons   *)
(* on a KeyboardInterrupt is no move: the navigator stays as it was.       *)
(***************************************************************************)
Min2(a, b) == IF a < b THEN a ELSE b

Max2(a, b) == IF a > b THEN a ELSE b

C5_UpMovesClamped ==
    [][ (pc = "command" /\ Word = << "p" >>) =>
          \A n \in (0 - 1)..(MaxUp + 1) :
              (Args = << >> /\ n = 1) \/ Args = << str(n) >> =>
                 LET here  == level.light.path
                     steps == Min2(Max2(n, 1), Len(level.ancestors))
                 IN  IF Abandoned THEN level' = level
                     ELSE /\ pc' = "done"
                          /\ out'.msg = ""
                          /\ level'.light.path = SubSeq(here, 1, Len(here) - steps)
                          /\ n >= Len(here) - 1 => level'.light.path = RootPath ]_vars

(***************************************************************************)
(* C6.  When a query gives a non-empty distance set D and a non-empty rank *)
(* set R, its result before name filtering is exactly the set of           *)
(* descendants of the current node at a distance in D whose rank is in R.  *)
(***************************************************************************)
Descendants(base) == { p \in DOMAIN fs : /\ Len(p) > Len(base)
                                         /\ SubSeq(p, 1, Len(base)) = base }

C6_BothIsDescendantsAtDistanceWithRank ==
    (Returned /\ Word = ls /\ out.msg = "") =>
        LET q == parse(Args)
        IN  (keys(q.distances) # {} /\ q.levels # {} /\ q.names = {}) =>
               Paths(out.matches) =
                   { p \in Descendants(level.light.path) :
                        /\ Len(p) - Len(level.light.path) \in keys(q.distances)
                        /\ fs[p].level \in q.levels }

(***************************************************************************)
(* C7.  In the tree Life > Eukarya > Animalia > Chordata > Mammalia, at    *)
(* Life, the rank query for kingdom never enumerates distance 1, which was *)
(* scanned when the Entry was built, nor anything deeper than 2; made      *)
(* while neither kingdom nor distance 2 is recorded as searched there (as  *)
(* on arrival), it enumerates distance 2 and returns exactly {Animalia}.   *)
(***************************************************************************)
KingdomQuery == << ls, l_token(kingdom) >>

AnimaliaPath == << Life, Eukarya, Animalia >>

C7_KingdomQueryAtLife ==
    [][ (Returns /\ fs = TreeChain /\ command_line = KingdomQuery
                 /\ level.light.path = RootPath) =>
          /\ 1 \in level.distances_searched
          /\ out'.globs \subseteq { 2 }
          /\ (kingdom \notin level.levels_searched /\ 2 \notin level.distances_searched)
                => /\ out'.globs = { 2 }
                   /\ Paths(out'.matches) = { AnimaliaPath } ]_vars

\* the statement as first made: the query itself scans distances 1 and 2
C7_ScansOneAndTwo ==
    (Returned /\ fs = TreeChain /\ command_line = KingdomQuery
              /\ level.light.path = RootPath) =>
        /\ Paths(out.matches) = { AnimaliaPath }
        /\ out.globs = { 1, 2 }

\* the query has run at Life, enumerated distance 2 and found Animalia
C7_Witness ==
    /\ Returned /\ fs = TreeChain /\ command_line = KingdomQuery
    /\ level.light.path = RootPath
    /\ out.globs = { 2 }
    /\ out.loads = { AnimaliaPath }
    /\ Paths(out.matches) = { AnimaliaPath }

(***************************************************************************)
(* C8.  A command that ends in a parse error (ls / goto with a malformed   *)
(* -d token or an unknown rank, p with an argument that is no number)      *)
(* leaves the Entry as it was, also when valid tokens precede the bad one, *)
(* and touches no directory; so does such a command abandoned on a         *)
(* KeyboardInterrupt.                                                      *)
(***************************************************************************)
Malformed(line) ==
    \/ /\ lower(Head(line)) \in { ls, goto }
       /\ \E i \in 2..Len(line) : line[i] \in BadTokens
    \/ /\ lower(Head(line)) = << "p" >>
       /\ Len(line) > 1
       /\ line[2] \in { << "x" >>, << "1", ".", "5" >> }

C8_ParseErrorChangesNothing ==
    [][ pc = "command" =>
          /\ Malformed(command_line) =>
                /\ level' = level
                /\ Abandoned \/ (pc' = "done" /\ out'.msg \in ParseErrors)
          /\ (pc' = "done" /\ out'.msg \in ParseErrors) =>
                /\ level' = level
                /\ out'.globs = {} /\ out'.loads = {}
                /\ out'.matches = {} ]_vars

\* ls -d2 -dx was refused at a position where distance 2 is still unscanned
C8_Witness ==
    /\ Returned
    /\ command_line = << ls, d_token(2), << "-", "d", "x" >> >>
    /\ out.msg = "Couldn't parse argument"
    /\ 2 \notin level.distances_searched
    /\ Below(level.light.path, 2) # {}

(***************************************************************************)
(* C9.  A bare <name> moves the navigator to X if and only if X is the     *)
(* only node among the direct children and the ancestors of the current    *)
(* node whose name equals <name> ignoring case; otherwise the command is   *)
(* reported as unrecognized and the navigator stays in place, as it does   *)
(* when the command is abandoned on a KeyboardInterrupt.                   *)
(***************************************************************************)
CommandWords == { ls, goto, << "p" >>, << "p", "a", "t", "h" >>, << "?" >>,
                  << "h", "e", "l", "p" >>, << "e", "x", "i", "t" >> }

\* the direct children and the proper ancestors of a directory, from the tree
Neighbours(base) ==
    Below(base, 1) \cup { SubSeq(base, 1, i) : i \in 1..(Len(base) - 1) }

C9_BareNameJumpsIffUnique ==
    [][ (pc = "command" /\ Word \notin CommandWords) =>
          LET named == { p \in Neighbours(level.light.path) :
                            lower(basename(p)) = lower(Head(command_line)) }
          IN  IF Abandoned THEN level' = level
              ELSE /\ pc' = "done"
                   /\ IF Cardinality(named) = 1
                      THEN /\ { level'.light.path } = named
                           /\ out'.msg = ""
                      ELSE /\ level' = level
                           /\ out'.msg = "Unrecognized command" ]_vars

\* a name typed in capitals has taken the navigator to the node it names
C9_Witness ==
    /\ Returned /\ Word \notin CommandWords
    /\ Head(command_line) = upper(basename(level.light.path))
    /\ Head(command_line) # basename(level.light.path)
    /\ Len(level.light.path) = 2
    /\ out.msg = ""

(***************************************************************************)
(* C10.  Every move (a goto that finds one node, p, a jump by name) yields *)
(* an Entry built anew: whatever was scanned before, here or elsewhere, on *)
(* arrival the index holds the direct children and nothing else.           *)
(***************************************************************************)
Moves ==
    /\ Returns
    /\ \/ Word = goto /\ Cardinality(out'.matches) = 1
       \/ Word = << "p" >> /\ out'.msg = ""
       \/ Word \notin CommandWords /\ out'.msg = ""

C10_MoveBuildsFreshEntry ==
    [][ Moves => level' = Fresh(level'.light.path) ]_vars

\* p has brought the navigator from two or more levels down back to the root,
\* whose Entry is as at the start
C10_Witness ==
    /\ Returned /\ Word = << "p" >> /\ out.msg = ""
    /\ level.light.path = RootPath
    /\ \E p \in out.loads : Len(p) = 3
    /\ level.levels_searched = {}
    /\ level.distances_searched = { 1 }

(***************************************************************************)
(* C11.  A -l<rank> token resolves to a rank exactly when <rank> is the    *)
(* full name of a rank, ignoring case, or is the short code of a rank,     *)
(* spelled as in the vocabulary; any other text is refused with            *)
(* "No such level" and the query does not run.                             *)
(***************************************************************************)
\* the text names a rank by full name (any case) or by short code (exact case)
NamesRank(s) ==
    \E i \in DOMAIN LEVELS : LEVELS[i].name = lower(s) \/ LEVELS[i].short = s

C11_RankResolvesIffNameOrExactShort ==
    (Returned /\ Word \in { ls, goto } /\ Len(Args) = 1
              /\ startswith(Args[1], << "-", "l" >>)) =>
        LET s == drop(Args[1], 2)
        IN  /\ NamesRank(s) <=> out.msg # "No such level"
            /\ out.msg = "No such level" => (out.globs = {} /\ out.loads = {})

(***************************************************************************)
(* C12.  For every integer N, negative and beyond the number of ranks      *)
(* included, ls -d<N> and goto -d<N> return normally, and what they find   *)
(* is the set of the nodes exactly N levels below the current node (none   *)
(* when N is negative or deeper than the tree), unless the command is      *)
(* abandoned on a KeyboardInterrupt.  For N = 0 only the normal return is  *)
(* required here.                                                          *)
(***************************************************************************)
\* the line in hand is ls or goto with the single token -d<N>, N an integer
SingleDistance ==
    /\ Word \in { ls, goto }
    /\ Len(Args) = 1
    /\ startswith(Args[1], << "-", "d" >>)
    /\ int_ok(drop(Args[1], 2))

C12_EveryDistanceCompletes ==
    [][ (pc = "command" /\ SingleDistance /\ ~ Abandoned) =>
          LET N == int(drop(Args[1], 2))
          IN  /\ pc' = "done"
              /\ out'.exc = "none"
              /\ N # 0 => Paths(out'.matches) = Below(level.light.path, N) ]_vars

(***************************************************************************)
(* C13.  At every position, whatever rank scans and distance scans ran     *)
(* there before, once _fill_distance(d) has completed for a bucket         *)
(* distance d, the bucket of d holds exactly one node for each directory   *)
(* exactly d levels below the position, and nothing else.                  *)
(***************************************************************************)
\* a method run that starts on an Entry
Start(e) == [e |-> e, exc |-> "none", globs |-> {}, loads |-> {}]

\* the bucket holds one node per directory of a set, and no other node
HoldsExactly(bucket, dirs) ==
    /\ Paths(bucket) = dirs
    /\ \A c1, c2 \in bucket : c1.path = c2.path => c1 = c2

C13_DistanceBucketIsExact ==
    pc = "input" =>
        \A d \in 0..(MaxDist + 1) :
            \A x \in fill_distance(Start(level), << d >>) :
                /\ x.exc = "none"
                /\ d \in x.e.distances_searched
                /\ HoldsExactly(x.e.children_by_distance[d], Below(level.light.path, d))

(***************************************************************************)
(* C14.  A rank query for a rank not yet searched at the position scans    *)
(* the depths 1..|order(rank) - order(current rank)| (those not already    *)
(* scanned), also when the requested rank is of lower order than the       *)
(* current node's rank.                                                    *)
(***************************************************************************)
Abs(n) == IF n < 0 THEN 0 - n ELSE n

C14_DepthIsAbsoluteDifference ==
    [][ (Returns /\ Word = ls) =>
          \A r \in LevelNames :
              (Args = << l_token(r) >> /\ r \notin level.levels_searched) =>
                  out'.globs =
                      (1..Abs(level_order(r) - level_order(level.light.level)))
                          \ level.distances_searched ]_vars

(***************************************************************************)
(* C15.  Once a rank r of higher order than the current node's rank c has  *)
(* been searched for at a position, the rank bucket of r holds every       *)
(* descendant of rank r at the depths 1..(order(r) - c), whatever distance *)
(* and rank queries came before, and a query by ranks alone returns them.  *)
(***************************************************************************)
\* the descendants of rank r within the depth that the rank orders allow
WithinRankDepth(e, r) ==
    { p \in Descendants(e.light.path) :
         /\ fs[p].level = r
         /\ Len(p) - Len(e.light.path) <= level_order(r) - level_order(e.light.level) }

C15_RankBucketHoldsAllWithinDepth ==
    /\ \A r \in level.levels_searched :
          level_order(r) > level_order(level.light.level) =>
              WithinRankDepth(level, r) \subseteq Paths(level.children_by_level[r])
    /\ (Returned /\ Word = ls /\ out.msg = "") =>
          LET q == parse(Args)
          IN  (keys(q.distances) = {} /\ q.names = {}) =>
                 \A r \in q.levels :
                     level_order(r) > level_order(level.light.level) =>
                         WithinRankDepth(level, r) \subseteq Paths(out.matches)

(***************************************************************************)
(* C16.  The node of the position is never held in its own distance        *)
(* buckets: the bucket of distance 0 stays empty, no bucket holds the      *)
(* node's own directory, and no ls lists the current node, whatever        *)
(* queries were made (-d0 and ranges from 0 included).                     *)
(***************************************************************************)
C16_NodeIsNeverItsOwnChild ==
    /\ level.children_by_distance[0] = {}
    /\ level.light.path \notin Paths(held(level))
    /\ (Returned /\ Word = ls) => level.light.path \notin Paths(out.matches)

(***************************************************************************)
(* C17.  A rank bucket is non-empty only for a rank that a rank search has *)
(* asked for at the current position: scans by distance (the one made when *)
(* the Entry is built included) put nothing into the bucket of a rank that *)
(* was not requested.                                                      *)
(***************************************************************************)
C17_RankBucketsOnlyForRequestedRanks ==
    \A r \in LevelNames :
        level.children_by_level[r] # {} => r \in level.levels_searched

(***************************************************************************)
(* C18.  When a scan meets a directory without descriptor, the scan fails, *)
(* the failure reaches the caller, and the index is left sound: no         *)
(* distance is recorded as scanned while its bucket lacks directories of   *)
(* that depth, and every node held in a bucket has its path in the cache   *)
(* of seen paths.                                                          *)
(***************************************************************************)
\* a command of the position has ended in a failed descriptor load
ScanFailed == pc = "crashed" /\ out.exc = "FileNotFoundError"

C18_FailedScanKeepsIndexSound ==
    ScanFailed =>
        /\ \A d \in level.distances_searched :
              Below(level.light.path, d) \subseteq Paths(level.children_by_distance[d])
        /\ Paths(held(level)) \subseteq level.path_cache

(***************************************************************************)
(* C19.  At every position the navigator reaches, the ancestors are the    *)
(* nodes of the directories from the root down to the parent of the        *)
(* current node, in that order: none at the root, and as many as the       *)
(* current node is levels below the root.                                  *)
(***************************************************************************)
C19_AncestorsAreChainFromRoot ==
    LET here == level.light.path
    IN  /\ SubSeq(here, 1, Len(RootPath)) = RootPath
        /\ Len(level.ancestors) = Len(here) - Len(RootPath)
        /\ \A i \in 1..Len(level.ancestors) :
              /\ level.ancestors[i].path = SubSeq(here, 1, Len(RootPath) + i - 1)
              /\ level.ancestors[i].level = fs[level.ancestors[i].path].level
        /\ here = RootPath => level.ancestors = << >>

\* a goto has taken the navigator two levels below the root in one move: the
\* ancestors are the root and then the node in between
C19_Witness ==
    /\ Returned /\ Word = goto /\ out.msg = ""
    /\ Len(level.light.path) = Len(RootPath) + 2
    /\ Len(level.ancestors) = 2
    /\ level.ancestors[1].path = RootPath
    /\ level.ancestors[2].path = dirname(level.light.path)
    /\ 2 \in out.globs

(***************************************************************************)
(* C20.  At a position, what an ls query lists depends on its arguments    *)
(* alone: after any ls and failed goto queries made there before, it lists *)
(* the same nodes as the same query made first thing on arrival.           *)
(***************************************************************************)
C20_ResultIndependentOfHistory ==
    (Returned /\ Word = ls /\ out.msg = "") =>
        Paths(out.matches) = Paths(LsRun(Fresh(level.light.path), Args).matches)

====
